---- MODULE Spec2Model ----
(***************************************************************************)
(* Real-time fan-out and connection lifecycle of the chat backend          *)
(* (backend ws.go: Broadcaster, WSHandler).                                *)
(*                                                                         *)
(* The registry is guarded by a sync.RWMutex: Join and Leave take it       *)
(* exclusively, Publish takes it shared.  Every goroutine of the program   *)
(* is a process of the model: the handler of a connection attempt, the     *)
(* writer and the reader of a joined connection, the goroutine Publish     *)
(* spawns to close an evicted transport, and the REST handlers that call   *)
(* Publish.                                                                *)
(***************************************************************************)
EXTENDS Integers, Sequences, FiniteSets, TLC

\* ---------------------------------------------------------------- bounds
\* connection attempts (one wsClient each at most)
NumConns == 2
\* concurrent REST handlers calling Publish
NumPublishers == 2
\* total number of Publish calls in a behaviour
MaxPublishes == 3
\* capacity of the send channel, make(chan Event, 32), scaled down
QueueCap == 2
\* Join and Leave calls of the registry driver
MaxCalls == 4
\* pings counted on one transport
MaxPings == 2
\* Publish calls where concurrent calls race on a full client
MaxRacePublishes == 4

Conns == 1..NumConns
Publishers == 1..NumPublishers

None == "none"

\* mu held by nobody
NoLock == <<>>

\* no event: the Publish slot is idle
NoEvent == [type |-> "none", conversation_id |-> <<>>, payload |-> 0]

\* no request on record
NoRequest ==
    [hdr |-> "none", qry |-> "none", uid |-> <<>>, cid |-> <<>>,
     found |-> "none", upgradeOk |-> FALSE, source |-> "none"]

\* ------------------------------------------------- identifiers (ObjectID)
\* A hex digit's value, or -1 when the character is not a hex digit.
HexVal(ch) ==
    CASE ch = "a" -> 10
      [] ch = "A" -> 10
      [] ch = "b" -> 11
      [] ch = "B" -> 11
      [] ch = "0" -> 0
      [] OTHER -> -1

\* primitive.ObjectIDFromHex: 24 hex digits give 12 bytes, anything else
\* is an error.
ObjectIDFromHex(s) ==
    IF Len(s) # 24 \/ \E i \in 1..Len(s) : HexVal(s[i]) < 0
    THEN [err |-> TRUE, id |-> <<>>]
    ELSE [err |-> FALSE,
          id |-> [i \in 1..12 |-> 16 * HexVal(s[2 * i - 1]) + HexVal(s[2 * i])]]

HexA == [i \in 1..24 |-> "a"]
HexAUpper == [i \in 1..24 |-> IF i = 1 THEN "A" ELSE "a"]
HexB == [i \in 1..24 |-> "b"]
HexBad == [i \in 1..24 |-> IF i = 24 THEN "g" ELSE "a"]
HexShort == <<"a", "b">>

\* the hex strings requests and events carry
HexInputs == {HexA, HexAUpper, HexB, HexBad, HexShort}

\* the hex strings Publish is called with: SendMessageHandler passes
\* cid.Hex(); an ill-formed one exercises the early return
PublishHexInputs == {HexA, HexB, HexBad}

\* the only event the handlers publish is message.created
EventTypes == {"message.created"}

VARIABLES
    rooms,      \* Broadcaster.rooms: ObjectID -> set of joined clients
    wLock,      \* the goroutine holding mu exclusively, or NoLock
    rLock,      \* the publishers holding mu shared
    hpc,        \* handler of each connection attempt
    status,     \* HTTP outcome of each connection attempt
    ccid,       \* wsClient.cid
    conn,       \* wsClient.conn: "none", "open", "closed"
    send,       \* wsClient.send: the buffered channel
    wire,       \* events written to the transport, in order
    wpc,        \* writer goroutine
    rpc,        \* reader goroutine
    closers,    \* pending close goroutines spawned by Publish
    nLeave,     \* Leave calls completed for the client
    nClose,     \* conn.Close calls completed by the loops' teardown
    ppc,        \* publisher position
    pev,        \* the event of the Publish call
    pcid,       \* cid parsed by the Publish call
    todo,       \* members the range loop still has to produce
    penq,       \* clients the call has enqueued its event to
    pevict,     \* clients the call took the select's default branch for
    nPub,       \* number of Publish calls made
    before,     \* pairs <<a, b>>: call a returned before call b started
    fatal,      \* the runtime stopped the process (concurrent map access)
    req,        \* the request of each connection attempt, where recorded
    hist,       \* the Join and Leave calls of the registry driver, in order
    pings,      \* ping frames written to each transport, where counted
    rpos,       \* SendMessageHandler: position of each REST handler
    rcid,       \* SendMessageHandler: cid of the request being handled
    msgs,       \* the messages collection: documents inserted
    resp        \* SendMessageHandler: status of the last response

vars == <<rooms, wLock, rLock, hpc, status, ccid, conn, send, wire, wpc, rpc,
          closers, nLeave, nClose, ppc, pev, pcid, todo, penq, pevict, nPub,
          before, fatal, req, hist, pings, rpos, rcid, msgs, resp>>

\* what only the REST handlers, the registry driver and the recording
\* steps touch
restVars == <<rpos, rcid, msgs, resp>>
auxVars == <<req, hist, pings, restVars>>

regVars == <<rooms, wLock, rLock>>
connVars == <<hpc, status, ccid, conn, send, wire, wpc, rpc,
              closers, nLeave, nClose>>
pubVars == <<ppc, pev, pcid, todo, penq, pevict, nPub, before>>

\* ------------------------------------------------------------- helpers
\* m := b.rooms[cid]; a missing key gives the nil map, which ranges over
\* nothing
MembersIn(r, cid) == IF cid \in DOMAIN r THEN r[cid] ELSE {}

Members(cid) == MembersIn(rooms, cid)

RoomsWithout(cid) == [k \in DOMAIN rooms \ {cid} |-> rooms[k]]

\* goroutines blocked in mu.Lock(); a pending Lock blocks new RLocks
LockWaiters ==
    {<<"join", c>> : c \in {x \in Conns : hpc[x] = "join"}}
    \cup {<<"leave", c, "w">> : c \in {x \in Conns : wpc[x] = "leave"}}
    \cup {<<"leave", c, "r">> : c \in {x \in Conns : rpc[x] = "leave"}}

CanLock == wLock = NoLock /\ rLock = {}
CanRLock == wLock = NoLock /\ LockWaiters = {}

Init ==
    /\ rooms = <<>>
    /\ wLock = NoLock
    /\ rLock = {}
    /\ hpc = [c \in Conns |-> "start"]
    /\ status = [c \in Conns |-> "pending"]
    /\ ccid = [c \in Conns |-> <<>>]
    /\ conn = [c \in Conns |-> "none"]
    /\ send = [c \in Conns |-> <<>>]
    /\ wire = [c \in Conns |-> <<>>]
    /\ wpc = [c \in Conns |-> "none"]
    /\ rpc = [c \in Conns |-> "none"]
    /\ closers = [c \in Conns |-> 0]
    /\ nLeave = [c \in Conns |-> 0]
    /\ nClose = [c \in Conns |-> 0]
    /\ ppc = [p \in Publishers |-> "idle"]
    /\ pev = [p \in Publishers |-> NoEvent]
    /\ pcid = [p \in Publishers |-> <<>>]
    /\ todo = [p \in Publishers |-> {}]
    /\ penq = [p \in Publishers |-> {}]
    /\ pevict = [p \in Publishers |-> {}]
    /\ nPub = 0
    /\ before = {}
    /\ fatal = FALSE
    /\ req = [c \in Conns |-> NoRequest]
    /\ hist = <<>>
    /\ pings = [c \in Conns |-> 0]
    /\ rpos = [p \in Publishers |-> "idle"]
    /\ rcid = [p \in Publishers |-> <<>>]
    /\ msgs = {}
    /\ resp = [p \in Publishers |-> None]

\* ------------------------------------------------ Broadcaster (registry)
\* mutant: Join makes the room anew every time
JoinRooms_Fresh(c, cid) ==
    [k \in DOMAIN rooms \cup {cid} |-> IF k = cid THEN {c} ELSE rooms[k]]

\* mutant: Join adds the client to every room there is
JoinRooms_Everywhere(c, cid) ==
    [k \in DOMAIN rooms \cup {cid} |-> MembersIn(rooms, k) \cup {c}]

\* body of Broadcaster.Join
JoinRooms(c, cid) ==
    IF cid \in DOMAIN rooms
    THEN [rooms EXCEPT ![cid] = @ \cup {c}]
    ELSE rooms @@ (cid :> {c})

\* mutant: Leave drops the whole room, whoever else is in it
LeaveRooms_DropRoom(c, cid) == RoomsWithout(cid)

\* mutant: Leave keeps the key of a room it emptied
LeaveRooms_KeepEmpty(c, cid) ==
    IF cid \in DOMAIN rooms THEN [rooms EXCEPT ![cid] = @ \ {c}] ELSE rooms

\* mutant: Leave deletes the room only when it removed the client itself
LeaveRooms_OnlyIfMember(c, cid) ==
    IF c \in MembersIn(rooms, cid)
    THEN LET m == rooms[cid] \ {c}
         IN IF m = {} THEN RoomsWithout(cid) ELSE [rooms EXCEPT ![cid] = m]
    ELSE rooms

\* body of Broadcaster.Leave
LeaveRooms(c, cid) ==
    IF cid \in DOMAIN rooms
    THEN LET m == rooms[cid] \ {c}
         IN IF m = {} THEN RoomsWithout(cid) ELSE [rooms EXCEPT ![cid] = m]
    ELSE rooms

\* ------------------------------------------------------- WSHandler
\* mutant: the token of the header is taken without verification
parseBearer_Unverified(hdr) == hdr \in {"valid", "invalid"}

\* parseBearer: the Authorization header must be "Bearer <token>" with a
\* token that verifies
parseBearer(hdr) == hdr = "valid"

\* mutant: the token query parameter is tried before the header
BearerSource_QueryFirst(hdr, qry) ==
    IF qry = "valid" THEN "query"
    ELSE IF parseBearer(hdr) THEN "header"
    ELSE "none"

\* parseBearerOrQuery: the token whose claims are returned: the header's
\* when it verifies, else the ?token= parameter's when present and
\* verifying, else none (an error)
BearerSource(hdr, qry) ==
    IF parseBearer(hdr) THEN "header"
    ELSE IF qry = "absent" THEN "none"
    ELSE IF qry = "valid" THEN "query"
    ELSE "none"

\* parseBearerOrQuery returns no error
parseBearerOrQuery(hdr, qry) == BearerSource(hdr, qry) # "none"

HdrInputs == {"absent", "malformed", "invalid", "valid"}
QryInputs == {"absent", "invalid", "valid"}
UidInputs == {HexA, HexBad}
\* what FindOne gives: a document, ErrNoDocuments, another error
MemberInputs == {"yes", "no", "err"}

\* mutant: a data-access error counts as membership
isMember_ErrAllows(found) == [ok |-> found # "no", err |-> FALSE]

\* isMember: ErrNoDocuments is (false, nil), otherwise (err == nil, err)
isMember(found) ==
    IF found = "no"
    THEN [ok |-> FALSE, err |-> FALSE]
    ELSE [ok |-> found # "err", err |-> found = "err"]

\* mutant: every rejection answers forbidden
Reject_Forbidden(c, out) ==
    /\ status' = [status EXCEPT ![c] = "403"]
    /\ hpc' = [hpc EXCEPT ![c] = "rejected"]
    /\ UNCHANGED <<conn, ccid>>

\* mutant: a failed upgrade is not noticed and the handler goes on to Join
Reject_KeepGoing(c, out) ==
    /\ status' = [status EXCEPT ![c] = out]
    /\ hpc' = [hpc EXCEPT ![c] = IF out = "upgrade_failed" THEN "join" ELSE "rejected"]
    /\ UNCHANGED <<conn, ccid>>

\* The handler up to its call of broadcaster.Join.  Each check that fails
\* ends the request with its status before the next input is looked at; on
\* success the client exists and the handler is inside Join, waiting in
\* mu.Lock().  The attempts are numbered in the order they arrive.
Reject(c, out) ==
    /\ status' = [status EXCEPT ![c] = out]
    /\ hpc' = [hpc EXCEPT ![c] = "rejected"]
    /\ UNCHANGED <<conn, ccid>>

\* mutant: the membership check is made first, on the identifiers as they
\* parse, before credential and identifiers decide
WSHandlerOn_MemberFirst(c, Hdrs, Qrys, Uids, Cids, Founds, Upgrades) ==
    /\ ~fatal
    /\ hpc[c] = "start"
    /\ \A d \in Conns : d < c => hpc[d] # "start"
    /\ \E found \in Founds :
          IF isMember(found).err THEN Reject(c, "500")
          ELSE IF ~isMember(found).ok THEN Reject(c, "403")
          ELSE \E hdr \in Hdrs, qry \in Qrys :
            IF ~parseBearerOrQuery(hdr, qry) THEN Reject(c, "401")
            ELSE \E uidHex \in Uids :
              IF ObjectIDFromHex(uidHex).err THEN Reject(c, "401")
              ELSE \E cidHex \in Cids :
                IF ObjectIDFromHex(cidHex).err THEN Reject(c, "400")
                ELSE \E upgradeOk \in Upgrades :
                  IF ~upgradeOk THEN Reject(c, "upgrade_failed")
                  ELSE /\ status' = [status EXCEPT ![c] = "101"]
                       /\ hpc' = [hpc EXCEPT ![c] = "join"]
                       /\ conn' = [conn EXCEPT ![c] = "open"]
                       /\ ccid' = [ccid EXCEPT ![c] = ObjectIDFromHex(cidHex).id]
    /\ UNCHANGED <<regVars, send, wire, wpc, rpc, closers, nLeave,
                   nClose, pubVars, fatal>>

\* the handler, for a request drawn from the given sets of inputs
WSHandlerOn(c, Hdrs, Qrys, Uids, Cids, Founds, Upgrades) ==
    /\ ~fatal
    /\ hpc[c] = "start"
    /\ \A d \in Conns : d < c => hpc[d] # "start"
    /\ \E hdr \in Hdrs, qry \in Qrys :
          IF ~parseBearerOrQuery(hdr, qry) THEN Reject(c, "401")
          ELSE \E uidHex \in Uids :
            IF ObjectIDFromHex(uidHex).err THEN Reject(c, "401")
            ELSE \E cidHex \in Cids :
              IF ObjectIDFromHex(cidHex).err THEN Reject(c, "400")
              ELSE \E found \in Founds :
                IF isMember(found).err THEN Reject(c, "500")
                ELSE IF ~isMember(found).ok THEN Reject(c, "403")
                ELSE \E upgradeOk \in Upgrades :
                  IF ~upgradeOk THEN Reject(c, "upgrade_failed")
                  ELSE /\ status' = [status EXCEPT ![c] = "101"]
                       /\ hpc' = [hpc EXCEPT ![c] = "join"]
                       /\ conn' = [conn EXCEPT ![c] = "open"]
                       /\ ccid' = [ccid EXCEPT ![c] = ObjectIDFromHex(cidHex).id]
    /\ UNCHANGED <<regVars, send, wire, wpc, rpc, closers, nLeave,
                   nClose, pubVars, fatal>>

WSHandler(c) ==
    /\ WSHandlerOn(c, HdrInputs, QryInputs, UidInputs, HexInputs,
                   MemberInputs, BOOLEAN)
    /\ UNCHANGED auxVars

\* the handler run on one request, the request kept for the record: what
\* the client sent, what the collaborators would answer, and the token
\* parseBearerOrQuery took the claims from
WSHandlerRequest(c) ==
    \E hdr \in HdrInputs, qry \in QryInputs, uidHex \in UidInputs,
       cidHex \in HexInputs, found \in MemberInputs, upgradeOk \in BOOLEAN :
        /\ WSHandlerOn(c, {hdr}, {qry}, {uidHex}, {cidHex}, {found}, {upgradeOk})
        /\ req' = [req EXCEPT ![c] =
                     [hdr |-> hdr, qry |-> qry, uid |-> uidHex, cid |-> cidHex,
                      found |-> found, upgradeOk |-> upgradeOk,
                      source |-> BearerSource(hdr, qry)]]
        /\ UNCHANGED <<hist, pings, restVars>>

\* mutant: the loops are started before Join is called
JoinLock_LoopsFirst(c) ==
    /\ ~fatal
    /\ hpc[c] = "join"
    /\ CanLock
    /\ wLock' = <<"join", c>>
    /\ hpc' = [hpc EXCEPT ![c] = "joining"]
    /\ wpc' = [wpc EXCEPT ![c] = "loop"]
    /\ rpc' = [rpc EXCEPT ![c] = "loop"]
    /\ UNCHANGED <<rooms, rLock, status, ccid, conn, send, wire, closers, nLeave, nClose, pubVars, fatal, auxVars>>

\* Join: mu.Lock() granted
JoinLock(c) ==
    /\ ~fatal
    /\ hpc[c] = "join"
    /\ CanLock
    /\ wLock' = <<"join", c>>
    /\ hpc' = [hpc EXCEPT ![c] = "joining"]
    /\ UNCHANGED <<rooms, rLock, status, ccid, conn, send, wire, wpc, rpc, closers, nLeave, nClose, pubVars, fatal, auxVars>>

\* Join: the body and the deferred Unlock; the handler then starts the
\* writer and the reader and returns
JoinUnlock(c) ==
    /\ ~fatal
    /\ hpc[c] = "joining"
    /\ wLock = <<"join", c>>
    /\ rooms' = JoinRooms(c, ccid[c])
    /\ wLock' = NoLock
    /\ hpc' = [hpc EXCEPT ![c] = "done"]
    /\ wpc' = [wpc EXCEPT ![c] = "loop"]
    /\ rpc' = [rpc EXCEPT ![c] = "loop"]
    /\ UNCHANGED <<rLock, status, ccid, conn, send, wire, closers,
                   nLeave, nClose, pubVars, fatal, auxVars>>

\* ------------------------------------------------- writer goroutine
\* case e := <-cl.send: the event is taken from the channel and written;
\* a write on a closed transport fails, a write on an open one may fail
\* (deadline exceeded, peer gone)
WriterSend(c) ==
    /\ ~fatal
    /\ wpc[c] = "loop"
    /\ send[c] # <<>>
    /\ send' = [send EXCEPT ![c] = Tail(@)]
    /\ \E ok \in (IF conn[c] = "open" THEN BOOLEAN ELSE {FALSE}) :
          IF ok
          THEN /\ wire' = [wire EXCEPT ![c] = Append(@, Head(send[c]))]
               /\ UNCHANGED wpc
          ELSE /\ wpc' = [wpc EXCEPT ![c] = "leave"]
               /\ UNCHANGED wire
    /\ UNCHANGED <<regVars, hpc, status, ccid, conn, rpc, closers, nLeave,
                   nClose, pubVars, fatal, auxVars>>

\* mutant: the writer gives up after a ping nobody answered
PingNext_GiveUp(c, ok) == IF ok /\ pings[c] = 0 THEN "loop" ELSE "leave"

\* mutant: the error of the ping write is dropped
PingNext_Ignore(c, ok) == "loop"

\* if err := WriteMessage(PingMessage): the loop goes on, or returns into
\* its deferred teardown
PingNext(c, ok) == IF ok THEN "loop" ELSE "leave"

\* case <-time.After(25s): no event was ready for the whole interval; the
\* ping is written, and a failed write ends the loop
WriterPingOn(c, ok) ==
    /\ ~fatal
    /\ wpc[c] = "loop"
    /\ send[c] = <<>>
    /\ ok \in (IF conn[c] = "open" THEN BOOLEAN ELSE {FALSE})
    /\ wpc' = [wpc EXCEPT ![c] = PingNext(c, ok)]
    /\ UNCHANGED <<regVars, hpc, status, ccid, conn, send, wire, rpc, closers,
                   nLeave, nClose, pubVars, fatal>>

WriterPing(c) ==
    /\ \E ok \in BOOLEAN : WriterPingOn(c, ok)
    /\ UNCHANGED auxVars

\* the same step, the pings that reached the transport counted; the peer
\* answers none of them
WriterPingCounted(c) ==
    \E ok \in BOOLEAN :
        /\ WriterPingOn(c, ok)
        /\ pings[c] < MaxPings
        /\ pings' = [pings EXCEPT ![c] = IF ok THEN @ + 1 ELSE @]
        /\ UNCHANGED <<req, hist, restVars>>

\* ------------------------------------------------- reader goroutine
\* ReadMessage returns an error: the peer closed, a protocol error, or the
\* transport was closed on this side.  A frame read without error is
\* discarded and changes nothing.
ReaderFail(c) ==
    /\ ~fatal
    /\ rpc[c] = "loop"
    /\ rpc' = [rpc EXCEPT ![c] = "leave"]
    /\ UNCHANGED <<regVars, hpc, status, ccid, conn, send, wire, wpc, closers, nLeave, nClose, pubVars, fatal, auxVars>>

\* ------------------------------------- deferred teardown of a loop
LoopPc(c, who) == IF who = "w" THEN wpc[c] ELSE rpc[c]

\* mutant: a loop that has closed the transport runs its teardown again
SetLoopPc_Again(c, who, v) ==
    LET u == IF v = "done" THEN "leave" ELSE v
    IN IF who = "w"
       THEN wpc' = [wpc EXCEPT ![c] = u] /\ UNCHANGED rpc
       ELSE rpc' = [rpc EXCEPT ![c] = u] /\ UNCHANGED wpc

\* mutant: a loop granted the lock goes straight to the close
SetLoopPc_CloseFirst(c, who, v) ==
    LET u == IF v = "leaving" THEN "close" ELSE v
    IN IF who = "w"
       THEN wpc' = [wpc EXCEPT ![c] = u] /\ UNCHANGED rpc
       ELSE rpc' = [rpc EXCEPT ![c] = u] /\ UNCHANGED wpc

SetLoopPc(c, who, v) ==
    IF who = "w"
    THEN wpc' = [wpc EXCEPT ![c] = v] /\ UNCHANGED rpc
    ELSE rpc' = [rpc EXCEPT ![c] = v] /\ UNCHANGED wpc

\* Leave: mu.Lock() granted
LeaveLock(c, who) ==
    /\ ~fatal
    /\ LoopPc(c, who) = "leave"
    /\ CanLock
    /\ wLock' = <<"leave", c, who>>
    /\ SetLoopPc(c, who, "leaving")
    /\ UNCHANGED <<rooms, rLock, hpc, status, ccid, conn, send, wire,
                   closers, nLeave, nClose, pubVars, fatal, auxVars>>

\* Leave: the body and the deferred Unlock
LeaveUnlock(c, who) ==
    /\ ~fatal
    /\ LoopPc(c, who) = "leaving"
    /\ wLock = <<"leave", c, who>>
    /\ rooms' = LeaveRooms(c, ccid[c])
    /\ wLock' = NoLock
    /\ nLeave' = [nLeave EXCEPT ![c] = @ + 1]
    /\ SetLoopPc(c, who, "close")
    /\ UNCHANGED <<rLock, hpc, status, ccid, conn, send, wire, closers, nClose, pubVars, fatal, auxVars>>

\* _ = cl.conn.Close(): closing a closed transport returns an error that
\* is dropped
LoopClose(c, who) ==
    /\ ~fatal
    /\ LoopPc(c, who) = "close"
    /\ conn' = [conn EXCEPT ![c] = "closed"]
    /\ nClose' = [nClose EXCEPT ![c] = @ + 1]
    /\ SetLoopPc(c, who, "done")
    /\ UNCHANGED <<regVars, hpc, status, ccid, send, wire, closers,
                   nLeave, pubVars, fatal, auxVars>>

\* the goroutine Publish starts for an evicted client: cl.conn.Close()
CloserRun(c) ==
    /\ ~fatal
    /\ closers[c] > 0
    /\ closers' = [closers EXCEPT ![c] = @ - 1]
    /\ conn' = [conn EXCEPT ![c] = "closed"]
    /\ UNCHANGED <<regVars, hpc, status, ccid, send, wire, wpc, rpc,
                   nLeave, nClose, pubVars, fatal, auxVars>>

\* ------------------------------------------------- Broadcaster.Publish
\* mutant: the send case is always taken
SendReady_Always(cl) == TRUE

\* mutant: the send case is never taken
SendReady_Never(cl) == FALSE

\* the select's send case is ready when the channel has buffer space
SendReady(cl) == Len(send[cl]) < QueueCap

\* mutant: the event is dropped and the client is kept
Enqueue_Drop(cl, e) == send

\* mutant: the event goes to the head of the queue
Enqueue_Front(cl, e) == [send EXCEPT ![cl] = <<e>> \o @]

\* mutant: the event is sent twice
Enqueue_Twice(cl, e) == [send EXCEPT ![cl] = @ \o <<e, e>>]

\* case cl.send <- e
Enqueue(cl, e) == [send EXCEPT ![cl] = Append(@, e)]

\* mutant: the full client is left in the room
EvictRooms_Keep(cl, cid) == rooms

\* mutant: the eviction also empties the rooms of the other conversations
EvictRooms_OtherRooms(cl, cid) ==
    [k \in DOMAIN rooms |-> IF k = cid THEN rooms[k] \ {cl} ELSE {}]

\* delete(m, cl) on the room's own map; the key of the room stays
EvictRooms(cl, cid) == [rooms EXCEPT ![cid] = @ \ {cl}]

\* mutant: the lookup creates the room it does not find
LookupRooms_Create(cid) ==
    IF cid \in DOMAIN rooms THEN rooms ELSE rooms @@ (cid :> {})

\* m := b.rooms[cid]: reading a key the map does not hold adds nothing to
\* the map
LookupRooms(cid) == rooms

\* the calls that have returned
Finished == {i \in 1..nPub : \A q \in Publishers : ppc[q] = "idle" \/ pev[q].payload # i}

\* another Publish is ranging over the same room's map
RangingSameRoom(p) ==
    \E q \in Publishers \ {p} : ppc[q] = "loop" /\ pcid[q] = pcid[p]

\* mutant: the error of the conversion is dropped and the call goes on
PublishEnter_Lenient(p, e) ==
    /\ ppc' = [ppc EXCEPT ![p] = "rlock"]
    /\ pev' = [pev EXCEPT ![p] = e]
    /\ pcid' = [pcid EXCEPT ![p] = ObjectIDFromHex(e.conversation_id).id]
    /\ before' = before \cup {<<a, e.payload>> : a \in Finished}

\* Publish(e) up to mu.RLock(): an ill-formed conversation id makes the
\* call return at once.  The payload numbers the calls, which keeps the
\* events apart.
PublishEnter(p, e) ==
    LET r == ObjectIDFromHex(e.conversation_id)
    IN IF r.err
       THEN UNCHANGED <<ppc, pev, pcid, before>>
       ELSE /\ ppc' = [ppc EXCEPT ![p] = "rlock"]
            /\ pev' = [pev EXCEPT ![p] = e]
            /\ pcid' = [pcid EXCEPT ![p] = r.id]
            /\ before' = before \cup {<<a, e.payload>> : a \in Finished}

\* A REST handler calls Publish(e).  The handlers are interchangeable: a
\* call takes the lowest idle slot.
PublishUpTo(p, n) ==
    /\ ~fatal
    /\ ppc[p] = "idle"
    /\ \A q \in Publishers : q < p => ppc[q] # "idle"
    /\ nPub < n
    /\ nPub' = nPub + 1
    /\ \E ty \in EventTypes, cidHex \in PublishHexInputs :
          PublishEnter(p, [type |-> ty, conversation_id |-> cidHex,
                           payload |-> nPub + 1])
    /\ UNCHANGED <<regVars, connVars, todo, penq, pevict, fatal>>

Publish(p) ==
    /\ PublishUpTo(p, MaxPublishes)
    /\ UNCHANGED auxVars

\* the same call, where one call more is made: enough calls to fill a
\* queue and then have two calls meet at the full client
PublishRace(p) ==
    /\ PublishUpTo(p, MaxRacePublishes)
    /\ UNCHANGED auxVars

\* mu.RLock() granted; m := b.rooms[cid] and the range over m begins
PublishRLock(p) ==
    /\ ~fatal
    /\ ppc[p] = "rlock"
    /\ CanRLock
    /\ rLock' = rLock \cup {p}
    /\ rooms' = LookupRooms(pcid[p])
    /\ todo' = [todo EXCEPT ![p] = Members(pcid[p])]
    /\ ppc' = [ppc EXCEPT ![p] = "loop"]
    /\ UNCHANGED <<wLock, connVars, pev, pcid, penq, pevict,
                   nPub, before, fatal, auxVars>>

\* One iteration of the range loop, for a client the range produces: the
\* non-blocking send, or the eviction when the channel is full.  The
\* delete runs under the shared lock: when another Publish ranges over the
\* same map the runtime may stop the process (concurrent map iteration and
\* map write).  A client another Publish deleted meanwhile may still be
\* produced, the read of the map being unsynchronised.
\* A client deleted from the map before the iteration reached it is not
\* produced, unless the deletion was another Publish's: that read is not
\* synchronised, and the range may or may not produce the client.
PublishVisit(p) ==
    /\ ~fatal
    /\ ppc[p] = "loop"
    /\ \E cl \in todo[p] :
       \E produced \in (IF cl \in Members(pcid[p]) THEN {TRUE} ELSE BOOLEAN) :
          IF ~produced
          THEN /\ todo' = [todo EXCEPT ![p] = @ \ {cl}]
               /\ UNCHANGED <<rooms, send, closers, penq, pevict, fatal>>
          ELSE IF SendReady(cl)
          THEN /\ send' = Enqueue(cl, pev[p])
               /\ penq' = [penq EXCEPT ![p] =
                             IF send'[cl] = Append(send[cl], pev[p])
                             THEN @ \cup {cl} ELSE @]
               /\ todo' = [todo EXCEPT ![p] = @ \ {cl}]
               /\ UNCHANGED <<rooms, closers, pevict, fatal>>
          ELSE \E crash \in (IF RangingSameRoom(p) THEN BOOLEAN ELSE {FALSE}) :
               IF crash
               THEN /\ fatal' = TRUE
                    /\ UNCHANGED <<rooms, closers, pevict, todo, send, penq>>
               ELSE /\ closers' = [closers EXCEPT ![cl] = @ + 1]
                    /\ rooms' = EvictRooms(cl, pcid[p])
                    /\ pevict' = [pevict EXCEPT ![p] = @ \cup {cl}]
                    /\ todo' = [todo EXCEPT ![p] = @ \ {cl}]
                    /\ UNCHANGED <<send, penq, fatal>>
    /\ UNCHANGED <<wLock, rLock, hpc, status, ccid, conn, wire, wpc,
                   rpc, nLeave, nClose, ppc, pev, pcid, nPub, before, auxVars>>

\* the range has produced every client of the map
LoopOver(p) == todo[p] = {}

\* the range is over: the deferred mu.RUnlock() and the return
PublishRUnlock(p) ==
    /\ ~fatal
    /\ ppc[p] = "loop"
    /\ LoopOver(p)
    /\ rLock' = rLock \ {p}
    /\ ppc' = [ppc EXCEPT ![p] = "idle"]
    /\ pev' = [pev EXCEPT ![p] = NoEvent]
    /\ pcid' = [pcid EXCEPT ![p] = <<>>]
    /\ todo' = [todo EXCEPT ![p] = {}]
    /\ penq' = [penq EXCEPT ![p] = {}]
    /\ pevict' = [pevict EXCEPT ![p] = {}]
    /\ UNCHANGED <<rooms, wLock, connVars, nPub, before, fatal, auxVars>>

\* ------------------------------------------------ SendMessageHandler
\* the digit of a value below 16, among the digits the identifiers use
HexDigit(n) ==
    CASE n = 10 -> "a"
      [] n = 11 -> "b"
      [] OTHER -> "0"

\* ObjectID.Hex(): two lower-case digits a byte
Hex(id) ==
    [i \in 1..(2 * Len(id)) |->
        IF i % 2 = 1 THEN HexDigit(id[(i + 1) \div 2] \div 16)
        ELSE HexDigit(id[i \div 2] % 16)]

\* the handler answers and returns
Respond(p, code) ==
    /\ resp' = [resp EXCEPT ![p] = code]
    /\ rpos' = [rpos EXCEPT ![p] = "idle"]

\* c.JSON(http.StatusCreated, msg)
Created(p) == "201"

\* mutant: a failed insert is published all the same
InsertFailed_Publish(p) ==
    /\ rpos' = [rpos EXCEPT ![p] = "inserted"]
    /\ UNCHANGED resp

\* InsertOne returned an error: 500, and the handler returns
InsertFailed(p) == Respond(p, "500")

\* POST /messages/:cid, from the request to the return of InsertOne: the
\* checks of the request, the membership check, the indexes, the insert.
\* Each failure answers and returns; after the insert the handler goes on
\* to Publish.
SendMessageHandler(p) ==
    /\ ~fatal
    /\ rpos[p] = "idle"
    /\ ppc[p] = "idle"
    /\ nPub + Cardinality({q \in Publishers : rpos[q] = "inserted"}) < MaxPublishes
    /\ \E uidHex \in UidInputs :
         IF ObjectIDFromHex(uidHex).err
         THEN Respond(p, "401") /\ UNCHANGED <<rcid, msgs>>
         ELSE \E cidHex \in HexInputs :
           IF ObjectIDFromHex(cidHex).err
           THEN Respond(p, "400") /\ UNCHANGED <<rcid, msgs>>
           ELSE \E bodyOk \in BOOLEAN :
             IF ~bodyOk
             THEN Respond(p, "400") /\ UNCHANGED <<rcid, msgs>>
             ELSE \E found \in MemberInputs :
               IF isMember(found).err
               THEN Respond(p, "500") /\ UNCHANGED <<rcid, msgs>>
               ELSE IF ~isMember(found).ok
               THEN Respond(p, "403") /\ UNCHANGED <<rcid, msgs>>
               ELSE \E indexOk \in BOOLEAN :
                 IF ~indexOk
                 THEN Respond(p, "500") /\ UNCHANGED <<rcid, msgs>>
                 ELSE \E insertOk \in BOOLEAN :
                   /\ rcid' = [rcid EXCEPT ![p] = ObjectIDFromHex(cidHex).id]
                   /\ IF ~insertOk
                      THEN InsertFailed(p) /\ UNCHANGED msgs
                      ELSE /\ msgs' = msgs \cup
                                 {[conversation_id |-> ObjectIDFromHex(cidHex).id,
                                   n |-> Cardinality(msgs) + 1]}
                           /\ rpos' = [rpos EXCEPT ![p] = "inserted"]
                           /\ UNCHANGED resp
    /\ UNCHANGED <<regVars, connVars, pubVars, fatal, req, hist, pings>>

\* broadcaster.Publish(Event{Type: "message.created",
\* ConversationID: cid.Hex(), ...}), up to mu.RLock()
SendPublish(p) ==
    /\ ~fatal
    /\ rpos[p] = "inserted"
    /\ ppc[p] = "idle"
    /\ nPub < MaxPublishes
    /\ nPub' = nPub + 1
    /\ PublishEnter(p, [type |-> "message.created",
                        conversation_id |-> Hex(rcid[p]),
                        payload |-> nPub + 1])
    /\ rpos' = [rpos EXCEPT ![p] = "publishing"]
    /\ UNCHANGED <<regVars, connVars, todo, penq, pevict, fatal,
                   req, hist, pings, rcid, msgs, resp>>

\* Publish has returned: c.JSON(http.StatusCreated, msg)
SendRespond(p) ==
    /\ ~fatal
    /\ rpos[p] = "publishing"
    /\ ppc[p] = "idle"
    /\ Respond(p, Created(p))
    /\ UNCHANGED <<regVars, connVars, pubVars, fatal, req, hist, pings,
                   rcid, msgs>>

\* ----------------------------------------------------- registry driver
\* the conversations the driver's endpoints belong to
DriverCids == {ObjectIDFromHex(HexA).id, ObjectIDFromHex(HexB).id}

\* cl := &wsClient{..., cid: cid}
NewClient(c) ==
    /\ ccid[c] = <<>>
    /\ \A d \in Conns : d < c => ccid[d] # <<>>
    /\ \E cid \in DriverCids : ccid' = [ccid EXCEPT ![c] = cid]
    /\ UNCHANGED <<regVars, hpc, status, conn, send, wire, wpc, rpc, closers,
                   nLeave, nClose, pubVars, fatal, auxVars>>

\* a whole call of Broadcaster.Join, nobody else at the lock
Join(c) ==
    /\ ccid[c] # <<>>
    /\ CanLock
    /\ Len(hist) < MaxCalls
    /\ rooms' = JoinRooms(c, ccid[c])
    /\ hist' = Append(hist, <<"join", c>>)
    /\ UNCHANGED <<wLock, rLock, connVars, pubVars, fatal, req, pings, restVars>>

\* a whole call of Broadcaster.Leave, nobody else at the lock
Leave(c) ==
    /\ ccid[c] # <<>>
    /\ CanLock
    /\ Len(hist) < MaxCalls
    /\ rooms' = LeaveRooms(c, ccid[c])
    /\ hist' = Append(hist, <<"leave", c>>)
    /\ UNCHANGED <<wLock, rLock, connVars, pubVars, fatal, req, pings, restVars>>

\* ------------------------------------------------------ specification
\* the steps of the connection attempts CS and of the publishers PS
NextOf(CS, PS) ==
    \/ \E c \in CS : WSHandler(c)
    \/ \E c \in CS : JoinLock(c)
    \/ \E c \in CS : JoinUnlock(c)
    \/ \E c \in CS : WriterSend(c)
    \/ \E c \in CS : WriterPing(c)
    \/ \E c \in CS : ReaderFail(c)
    \/ \E c \in CS, who \in {"w", "r"} : LeaveLock(c, who)
    \/ \E c \in CS, who \in {"w", "r"} : LeaveUnlock(c, who)
    \/ \E c \in CS, who \in {"w", "r"} : LoopClose(c, who)
    \/ \E c \in CS : CloserRun(c)
    \/ \E p \in PS : Publish(p)
    \/ \E p \in PS : PublishRLock(p)
    \/ \E p \in PS : PublishVisit(p)
    \/ \E p \in PS : PublishRUnlock(p)

Next == NextOf(Conns, Publishers)

Spec == Init /\ [][Next]_vars

\* every connection attempt, the Publish calls one after the other
SpecSeq == Init /\ [][NextOf(Conns, {1})]_vars

\* concurrent Publish calls, one connection
SpecConc == Init /\ [][NextOf({1}, Publishers)]_vars

\* concurrent Publish calls on one connection, one call more than fills
\* its queue
NextRace ==
    \/ \E c \in {1} : WSHandler(c)
    \/ \E c \in {1} : JoinLock(c)
    \/ \E c \in {1} : JoinUnlock(c)
    \/ \E c \in {1} : WriterSend(c)
    \/ \E c \in {1} : WriterPing(c)
    \/ \E c \in {1} : ReaderFail(c)
    \/ \E c \in {1}, who \in {"w", "r"} : LeaveLock(c, who)
    \/ \E c \in {1}, who \in {"w", "r"} : LeaveUnlock(c, who)
    \/ \E c \in {1}, who \in {"w", "r"} : LoopClose(c, who)
    \/ \E c \in {1} : CloserRun(c)
    \/ \E p \in Publishers : PublishRace(p)
    \/ \E p \in Publishers : PublishRLock(p)
    \/ \E p \in Publishers : PublishVisit(p)
    \/ \E p \in Publishers : PublishRUnlock(p)

SpecRace == Init /\ [][NextRace]_vars

\* the goroutines inside Join, Leave and Publish are scheduled: a call
\* that can take the lock, go on under it or release it does so
FairCalls ==
    /\ \A c \in {1} : WF_vars(JoinLock(c)) /\ WF_vars(JoinUnlock(c))
    /\ \A c \in {1}, who \in {"w", "r"} :
          /\ WF_vars(LeaveLock(c, who))
          /\ WF_vars(LeaveUnlock(c, who))
    /\ \A p \in Publishers :
          /\ WF_vars(PublishRLock(p))
          /\ WF_vars(PublishVisit(p))
          /\ WF_vars(PublishRUnlock(p))

\* concurrent Publish calls and one connection under that scheduling
SpecConcFair == SpecConc /\ FairCalls

\* the Broadcaster alone, driven by Join and Leave calls in any order
NextRegistry ==
    \/ \E c \in Conns : NewClient(c)
    \/ \E c \in Conns : Join(c)
    \/ \E c \in Conns : Leave(c)

SpecRegistry == Init /\ [][NextRegistry]_vars

\* the connection attempts up to the join, the requests of all but the
\* first on record
NextHandshake ==
    \/ \E c \in {1} : WSHandler(c)
    \/ \E c \in Conns \ {1} : WSHandlerRequest(c)
    \/ \E c \in Conns : JoinLock(c)
    \/ \E c \in Conns : JoinUnlock(c)

SpecHandshake == Init /\ [][NextHandshake]_vars

\* one REST handler sending messages to the conversations of one
\* connection
NextSend ==
    \/ \E c \in {1} : WSHandler(c)
    \/ \E c \in {1} : JoinLock(c)
    \/ \E c \in {1} : JoinUnlock(c)
    \/ \E c \in {1} : WriterSend(c)
    \/ \E c \in {1} : ReaderFail(c)
    \/ \E c \in {1}, who \in {"w", "r"} : LeaveLock(c, who)
    \/ \E c \in {1}, who \in {"w", "r"} : LeaveUnlock(c, who)
    \/ \E c \in {1}, who \in {"w", "r"} : LoopClose(c, who)
    \/ \E c \in {1} : CloserRun(c)
    \/ \E p \in {1} : SendMessageHandler(p)
    \/ \E p \in {1} : SendPublish(p)
    \/ \E p \in {1} : PublishRLock(p)
    \/ \E p \in {1} : PublishVisit(p)
    \/ \E p \in {1} : PublishRUnlock(p)
    \/ \E p \in {1} : SendRespond(p)

SpecSend == Init /\ [][NextSend]_vars

\* one connection with its pings counted, one publisher
NextKeepAlive ==
    \/ \E c \in {1} : WSHandler(c)
    \/ \E c \in {1} : JoinLock(c)
    \/ \E c \in {1} : JoinUnlock(c)
    \/ \E c \in {1} : WriterSend(c)
    \/ \E c \in {1} : WriterPingCounted(c)
    \/ \E c \in {1} : ReaderFail(c)
    \/ \E c \in {1}, who \in {"w", "r"} : LeaveLock(c, who)
    \/ \E c \in {1}, who \in {"w", "r"} : LeaveUnlock(c, who)
    \/ \E c \in {1}, who \in {"w", "r"} : LoopClose(c, who)
    \/ \E c \in {1} : CloserRun(c)
    \/ \E p \in {1} : Publish(p)
    \/ \E p \in {1} : PublishRLock(p)
    \/ \E p \in {1} : PublishVisit(p)
    \/ \E p \in {1} : PublishRUnlock(p)

SpecKeepAlive == Init /\ [][NextKeepAlive]_vars

\* the goroutines are scheduled: a loop in its deferred teardown, a close
\* goroutine, a Publish past its entry and a handler inside Join go on
\* whenever they can
FairKeepAlive ==
    /\ \A c \in {1}, who \in {"w", "r"} :
          /\ WF_vars(LeaveLock(c, who))
          /\ WF_vars(LeaveUnlock(c, who))
          /\ WF_vars(LoopClose(c, who))
    /\ \A c \in {1} : WF_vars(CloserRun(c)) /\ WF_vars(JoinUnlock(c))
    /\ \A p \in {1} :
          /\ WF_vars(PublishVisit(p))
          /\ WF_vars(PublishRUnlock(p))

SpecKeepAliveFair == SpecKeepAlive /\ FairKeepAlive

\* ReadMessage on a transport closed on this side returns its error
ReaderFailClosed(c) == conn[c] = "closed" /\ ReaderFail(c)

\* the writer's next turn on a transport closed on this side, an event or
\* the idle timeout's ping: the write fails
WriterOnClosed(c) == conn[c] = "closed" /\ (WriterSend(c) \/ WriterPing(c))

\* the goroutines are scheduled, and on a transport the server has closed
\* the reader's read returns and the writer's next write is made
FairLifecycle ==
    /\ FairKeepAlive
    /\ \A c \in {1} :
          /\ WF_vars(ReaderFailClosed(c))
          /\ WF_vars(WriterOnClosed(c))

\* one connection and one publisher under that scheduling
SpecLifecycleFair == Init /\ [][NextOf({1}, {1})]_vars /\ FairLifecycle

\* ================================================================ claims
Loops == {"w", "r"}

\* what the client was handed: the frames written, then the queue
Delivered(c) == wire[c] \o send[c]

\* a step of Publish p that ends its range loop and returns
Returns(p) == ppc[p] = "loop" /\ ppc'[p] = "idle"

\* a step of Publish p that takes member cl through the select
Reaches(p, cl) ==
    /\ ppc[p] = "loop" /\ ppc'[p] = "loop"
    /\ cl \in todo[p] /\ cl \notin todo'[p]
    /\ cl \in Members(pcid[p])

\* C1: slow-consumer eviction.  When Publish reaches a member whose queue is
\* at capacity, the member is removed from the room and one more close of
\* its transport is scheduled, its queue untouched; a member with room in
\* its queue is appended the event and stays; and a call that evicted
\* someone returns only with every remaining member of the room enqueued.
C1_SlowConsumerEvicted ==
    [][\A p \in Publishers :
         /\ \A cl \in Conns :
              Reaches(p, cl) =>
                IF Len(send[cl]) >= QueueCap
                THEN /\ cl \notin MembersIn(rooms', pcid[p])
                     /\ closers'[cl] = closers[cl] + 1
                     /\ send'[cl] = send[cl]
                ELSE /\ send'[cl] = Append(send[cl], pev[p])
                     /\ cl \in MembersIn(rooms', pcid[p])
         /\ (Returns(p) /\ pevict[p] # {}) => Members(pcid[p]) \subseteq penq[p]
      ]_vars

\* a call over, having evicted one member and enqueued to another
C1_Witness ==
    \E p \in Publishers :
        /\ ppc[p] = "loop" /\ todo[p] = {}
        /\ pevict[p] # {} /\ penq[p] # {}
        /\ \A cl \in pevict[p] : cl \notin Members(pcid[p]) /\ closers[cl] > 0
        /\ \A cl \in penq[p] : cl \in Members(pcid[p])

\* C2: no silent per-event drop.  When a Publish call returns, every client
\* that is a member of the event's room has had the event appended to its
\* queue by that call (so a member at the start of the call either got the
\* event or is a member no longer).
C2_NoSilentDrop ==
    [][\A p \in Publishers : Returns(p) => Members(pcid[p]) \subseteq penq[p]]_vars

\* two concurrent calls over, both having enqueued to the same member
C2_Witness ==
    \E p, q \in Publishers :
        /\ p # q
        /\ ppc[p] = "loop" /\ todo[p] = {} /\ ppc[q] = "loop" /\ todo[q] = {}
        /\ penq[p] # {} /\ penq[p] = penq[q]
        /\ penq[p] = Members(pcid[p])

\* C3: Publish never waits.  A Publish call that holds the registry lock
\* always has its next step enabled (the next client of the range, or the
\* unlock), whatever the state of the queues and the writers.
C3_PublishNeverWaits ==
    \A p \in Publishers :
        ppc[p] = "loop" => ENABLED (PublishVisit(p) \/ PublishRUnlock(p))

\* C4: per-room publish order.  When call a returned before call b started,
\* no client is handed b's event before a's: not on the transport, not in
\* the queue.
C4_PublishOrder ==
    \A c \in Conns :
        \A i, j \in DOMAIN Delivered(c) :
            <<Delivered(c)[i].payload, Delivered(c)[j].payload>> \in before => i < j

\* the writer has written the events of two calls, one after the other,
\* and holds the event of a third call, concurrent with the second
C4_Witness ==
    \E c \in Conns :
        /\ Len(wire[c]) = 2 /\ Len(send[c]) = 1
        /\ <<wire[c][1].payload, wire[c][2].payload>> \in before
        /\ <<wire[c][2].payload, send[c][1].payload>> \notin before

C6_TeardownIdempotent ==
    [][/\ \A c \in Conns, who \in Loops :
            (wLock = <<"leave", c, who>> /\ wLock' = NoLock) =>
                /\ send' = send
                /\ \A k \in DOMAIN rooms \cup DOMAIN rooms' :
                      MembersIn(rooms', k) = MembersIn(rooms, k) \ {c}
       /\ \A c \in Conns :
            (wpc'[c] = "done" /\ rpc'[c] = "done") =>
                /\ \A k \in DOMAIN rooms' : c \notin rooms'[k]
                /\ conn'[c] = "closed"
      ]_vars

\* a client fully torn down beside a client still joined to the same room
\* with an event in its queue
C6_Witness ==
    \E c, d \in Conns :
        /\ c # d /\ ccid[c] = ccid[d]
        /\ wpc[c] = "done" /\ rpc[c] = "done" /\ nLeave[c] = 2
        /\ d \in Members(ccid[d]) /\ send[d] # <<>>

\* C7: exclusive mutation.  While a Publish is inside its critical section,
\* ranging over a room, the members of that room change only by that
\* Publish's own evictions.
C7_ExclusiveMutation ==
    [][\A q \in Publishers :
         (ppc[q] = "loop" /\ ppc'[q] = "loop" /\ pevict'[q] = pevict[q]) =>
             MembersIn(rooms', pcid[q]) = MembersIn(rooms, pcid[q])
      ]_vars

\* C8: the registry holds no empty room.
C8_NoEmptyRoom == \A k \in DOMAIN rooms : rooms[k] # {}

\* C9: when the Leave of a teardown leaves its room without members, the
\* key of the room is gone when Leave unlocks.
C9_LastLeaveDeletesRoom ==
    [][\A c \in Conns, who \in Loops :
         (/\ wLock = <<"leave", c, who>> /\ wLock' = NoLock
          /\ Members(ccid[c]) \ {c} = {}) => ccid[c] \notin DOMAIN rooms'
      ]_vars

\* a client that was never evicted has left, and its room is gone
C9_Witness ==
    \E c \in Conns :
        /\ nLeave[c] = 1 /\ closers[c] = 0 /\ conn[c] = "open"
        /\ ccid[c] \notin DOMAIN rooms

\* C10: Publish for a conversation without joined endpoints is a no-op.
\* Every step of a call whose room has no member (the call, the lock and
\* the lookup, the unlock) leaves the room map, its key set, the queues,
\* the transports and the scheduled closes as they were.
C10_PublishEmptyNoOp ==
    [][\A p \in Publishers :
         (/\ ppc'[p] # ppc[p]
          /\ Members(IF ppc[p] = "idle" THEN pcid'[p] ELSE pcid[p]) = {}) =>
             /\ rooms' = rooms
             /\ DOMAIN rooms' = DOMAIN rooms
             /\ send' = send /\ wire' = wire
             /\ conn' = conn /\ closers' = closers
      ]_vars

\* a call inside its critical section for a conversation without a room
C10_Witness ==
    \E p \in Publishers : ppc[p] = "loop" /\ pcid[p] \notin DOMAIN rooms

\* the set a room's members form when the calls of h are replayed on a
\* mathematical set: add on Join, remove on Leave
RECURSIVE Replay(_, _)
Replay(h, k) ==
    IF h = <<>> THEN {}
    ELSE LET prev == Replay(SubSeq(h, 1, Len(h) - 1), k)
             call == h[Len(h)]
         IN IF ccid[call[2]] # k THEN prev
            ELSE IF call[1] = "join" THEN prev \cup {call[2]}
            ELSE prev \ {call[2]}

\* C11: after any sequence of Join and Leave calls, the members of each
\* room are the set the replay of the sequence gives, a repeated Join of
\* one endpoint counting once; a room is in the map exactly when that set
\* is not empty.
C11_JoinLeaveReplay ==
    \A k \in DriverCids :
        /\ Members(k) = Replay(hist, k)
        /\ k \in DOMAIN rooms <=> Replay(hist, k) # {}

\* an endpoint joined twice in a row shares its room with another one
C11_Witness ==
    \E c, d \in Conns : \E i \in 1..Len(hist) :
        /\ c # d
        /\ i + 2 <= Len(hist)
        /\ hist[i] = <<"join", c>> /\ hist[i + 1] = <<"join", d>>
        /\ hist[i + 2] = <<"join", c>>
        /\ Members(ccid[c]) = {c, d}

\* C12: the Leave of an endpoint that is not a member of its room (removed
\* by an earlier Leave or by an eviction, or the room gone) changes nothing
\* in the registry.
C12_LeaveAbsentNoOp ==
    [][\A c \in Conns, who \in Loops :
         (/\ wLock = <<"leave", c, who>> /\ wLock' = NoLock
          /\ c \notin Members(ccid[c])) => rooms' = rooms
      ]_vars

\* the attempt's request is on record
OnRecord(c) == req[c].hdr # "none"

\* the request carries a credential that verifies, in either place
CredOk(r) == r.hdr = "valid" \/ r.qry = "valid"

\* 24 hex digits
WellFormed(h) == h \in {HexA, HexAUpper, HexB}

\* the attempt got its wsClient: transport, queue, conversation
HasClient(c) == conn[c] # "none" \/ ccid[c] # <<>>

InSomeRoom(c) == \E k \in DOMAIN rooms : c \in rooms[k]

\* the attempt left no trace: no upgrade, no client, no membership
NothingAllocated(c) ==
    /\ hpc[c] = "rejected"
    /\ ~HasClient(c) /\ ~InSomeRoom(c)
    /\ send[c] = <<>> /\ wpc[c] = "none" /\ rpc[c] = "none"

\* C13: no join without a passed handshake.  An attempt that has a client
\* (transport, queue) or is a member of a room presented a credential that
\* verified, with a well-formed subject, the membership check answered
\* true and the upgrade succeeded; an attempt with a bad credential has
\* neither client nor membership.
C13_NoJoinWithoutHandshake ==
    \A c \in Conns :
        OnRecord(c) =>
            /\ (HasClient(c) \/ InSomeRoom(c)) =>
                  /\ CredOk(req[c]) /\ WellFormed(req[c].uid)
                  /\ req[c].found = "yes" /\ req[c].upgradeOk
                  /\ status[c] = "101"
            /\ ~CredOk(req[c]) => NothingAllocated(c)

\* an attempt on record has joined the room of the first connection
C13_Witness ==
    \E c \in Conns :
        /\ OnRecord(c) /\ c # 1
        /\ Members(ccid[c]) = {1, c}

\* C14: each rejection before the upgrade has its own status.  When the
\* handler has run: a credential that does not verify gives 401; with a
\* good credential and subject an ill-formed conversation id gives 400;
\* with those well-formed a subject that is not a member gives 403; and a
\* handler that ends in 401, 400 or 403 upgraded nothing, made no client
\* and left the registry as it was.
C14_RejectedBeforeUpgrade ==
    [][\A c \in Conns :
         (hpc[c] = "start" /\ hpc'[c] # "start" /\ req'[c].hdr # "none") =>
            LET r == req'[c]
            IN /\ ~CredOk(r) => status'[c] = "401"
               /\ (CredOk(r) /\ WellFormed(r.uid) /\ ~WellFormed(r.cid)) =>
                     status'[c] = "400"
               /\ (CredOk(r) /\ WellFormed(r.uid) /\ WellFormed(r.cid)
                   /\ r.found = "no") => status'[c] = "403"
               /\ status'[c] \in {"401", "400", "403"} =>
                     /\ hpc'[c] = "rejected"
                     /\ conn'[c] = "none" /\ ccid'[c] = <<>>
                     /\ rooms' = rooms /\ send' = send
                     /\ wpc' = wpc /\ rpc' = rpc
      ]_vars

\* a subject that is not a member was answered 403 while the first
\* connection is joined to the conversation asked for
C14_Witness ==
    \E c \in Conns :
        /\ OnRecord(c) /\ status[c] = "403" /\ req[c].found = "no"
        /\ rooms # <<>>
        /\ \A k \in DOMAIN rooms : k = ObjectIDFromHex(req[c].cid).id /\ rooms[k] = {1}

\* C15: a failure of the membership check rejects the attempt.  With the
\* credential, the subject and the conversation id in order, a data-access
\* error of isMember ends the handler with 500, without upgrade, client or
\* membership, as the answer "not a member" does.
C15_OracleFailureRejects ==
    \A c \in Conns :
        (/\ OnRecord(c)
         /\ CredOk(req[c]) /\ WellFormed(req[c].uid) /\ WellFormed(req[c].cid)
         /\ req[c].found # "yes") =>
            /\ status[c] = (IF req[c].found = "err" THEN "500" ELSE "403")
            /\ NothingAllocated(c)

\* an attempt that would have been upgraded was rejected for the error
C15_Witness ==
    \E c \in Conns :
        /\ OnRecord(c) /\ req[c].found = "err" /\ req[c].upgradeOk
        /\ status[c] = "500"

\* C16: the credential is taken from either place.  With a well-formed
\* subject, the attempt gets past authentication (is not answered 401)
\* exactly when the header's token verifies, or it does not and the query
\* parameter's does; the header's token is the one used when it verifies,
\* the query parameter's otherwise.
C16_HeaderOrQuery ==
    \A c \in Conns :
        OnRecord(c) =>
            LET r == req[c]
                byHeader == r.hdr = "valid"
                byQuery == r.hdr # "valid" /\ r.qry = "valid"
            IN /\ WellFormed(r.uid) => (status[c] # "401" <=> (byHeader \/ byQuery))
               /\ ~WellFormed(r.uid) => status[c] = "401"
               /\ byHeader => r.source = "header"
               /\ byQuery => r.source = "query"
               /\ (~byHeader /\ ~byQuery) => r.source = "none"

\* joined on the query parameter's token, the header's being ill-formed
C16_Witness ==
    \E c \in Conns :
        /\ OnRecord(c) /\ req[c].hdr = "malformed" /\ req[c].qry = "valid"
        /\ status[c] = "101" /\ InSomeRoom(c)

\* C17: an endpoint whose transport the server has closed is not retained.
\* Whenever no Publish is inside its critical section, an endpoint whose
\* transport was closed (by a loop's teardown or by the close an eviction
\* scheduled) is a member of no room.
C17_ClosedNotRetained ==
    rLock = {} => \A c \in Conns : conn[c] = "closed" => ~InSomeRoom(c)

\* an evicted endpoint, closed by the scheduled close alone, its loops not
\* yet torn down, beside an endpoint still joined
C17_Witness ==
    \E c, d \in Conns :
        /\ rLock = {}
        /\ conn[c] = "closed" /\ nClose[c] = 0 /\ nLeave[c] = 0
        /\ c # d /\ d \in Members(ccid[c])

\* a step of endpoint x failing: its read error, its write error, the Leave
\* or the close of its teardown, a Publish taking the select's default
\* branch for it (its eviction), the close scheduled by its eviction
FailureStep(x) ==
    \/ rpc[x] = "loop" /\ rpc'[x] = "leave"
    \/ wpc[x] = "loop" /\ wpc'[x] = "leave"
    \/ \E who \in Loops : wLock = <<"leave", x, who>> /\ wLock' = NoLock
    \/ \E who \in Loops : LoopPc(x, who) = "close" /\ LoopPc(x, who)' = "done"
    \/ \E p \in Publishers :
          /\ ppc[p] = "loop" /\ x \in todo[p] /\ x \in Members(pcid[p])
          /\ Len(send[x]) >= QueueCap
          /\ x \notin todo'[p] \/ fatal'
    \/ closers'[x] < closers[x]

\* C18: failures are local to one connection.  A failure step of endpoint x
\* leaves the process running and every other endpoint a member of exactly
\* the rooms it was in, with its queue, its transport and its loops as they
\* were; and a Publish call returns to its caller in the same way whether
\* or not it evicted anyone: nothing of the call is left.
C18_FailuresLocal ==
    [][/\ \A x \in Conns :
            FailureStep(x) =>
                /\ ~fatal'
                /\ \A d \in Conns \ {x} :
                    /\ \A k \in DOMAIN rooms \cup DOMAIN rooms' :
                          d \in MembersIn(rooms', k) <=> d \in MembersIn(rooms, k)
                    /\ send'[d] = send[d] /\ wire'[d] = wire[d]
                    /\ conn'[d] = conn[d]
                    /\ wpc'[d] = wpc[d] /\ rpc'[d] = rpc[d]
       /\ \A p \in Publishers :
            Returns(p) =>
                /\ todo'[p] = {} /\ penq'[p] = {} /\ pevict'[p] = {}
                /\ pcid'[p] = <<>> /\ fatal' = fatal
                /\ rooms' = rooms /\ send' = send
      ]_vars

\* C19: the message handler publishes only after its insert.  Publish is
\* called by a handler that has inserted its message and has not answered
\* yet, with a message.created event for the conversation of that message;
\* a successful insert is followed by the call and not by an answer; the
\* calls made are as many as the inserts that succeeded, less those whose
\* call is next; a handler that answers without having inserted inserts
\* and publishes nothing and does not answer 201; and once Publish has
\* returned the answer is 201, whatever rooms, queues and scheduled closes
\* Publish left behind.
C19_PublishAfterInsert ==
    [][/\ \A p \in Publishers :
            /\ (ppc[p] = "idle" /\ ppc'[p] = "rlock") =>
                  /\ rpos[p] = "inserted" /\ rpos'[p] = "publishing"
                  /\ \E m \in msgs : m.conversation_id = rcid[p]
                  /\ pev'[p].type = "message.created"
                  /\ pev'[p].conversation_id = Hex(rcid[p])
                  /\ pcid'[p] = rcid[p]
                  /\ resp'[p] = resp[p]
            /\ (rpos[p] = "idle" /\ rpos'[p] = "inserted") =>
                  /\ Cardinality(msgs') = Cardinality(msgs) + 1
                  /\ resp'[p] = resp[p] /\ nPub' = nPub
            /\ (rpos[p] = "idle" /\ rpos'[p] = "idle" /\ resp'[p] # resp[p]) =>
                  /\ msgs' = msgs /\ nPub' = nPub
                  /\ resp'[p] # "201"
            /\ (rpos[p] = "publishing" /\ rpos'[p] # "publishing") =>
                  /\ ppc[p] = "idle"
                  /\ resp'[p] = "201"
                  /\ msgs' = msgs
       /\ nPub' + Cardinality({p \in Publishers : rpos'[p] = "inserted"})
             = Cardinality(msgs')
       /\ nPub' # nPub => \E p \in Publishers : rpos'[p] = "publishing"
      ]_vars

\* the third message answered 201 after its Publish evicted the only member
C19_Witness ==
    \E p \in Publishers : \E c \in Conns :
        /\ rpos[p] = "idle" /\ resp[p] = "201"
        /\ Cardinality(msgs) = MaxPublishes /\ nPub = MaxPublishes
        /\ closers[c] > 0 /\ Len(send[c]) = QueueCap
        /\ ccid[c] \in DOMAIN rooms /\ rooms[ccid[c]] = {}

\* a step that writes a ping to the transport of c
PingWritten(c) == pings'[c] = pings[c] + 1

\* a step in which the ping write of c fails
PingFailed(c) ==
    /\ wpc[c] = "loop" /\ wpc'[c] = "leave"
    /\ send[c] = <<>>

\* C20: keep-alive.  A ping is written only by the writer loop, with no
\* event in the queue to dequeue and none dequeued in the step; a written
\* ping, however many went unanswered before it, leaves the loops running
\* and closes nothing; a ping write that fails ends the writer loop in its
\* teardown, which writes no further ping and goes on to Leave and to the
\* close of the transport; and while neither loop has ended and no
\* eviction has scheduled a close the transport stays open, for any number
\* of pings without an answer.
C20_KeepAlive ==
    /\ [][\A c \in Conns :
            /\ pings'[c] # pings[c] => PingWritten(c)
            /\ PingWritten(c) =>
                  /\ wpc[c] = "loop" /\ send[c] = <<>> /\ conn[c] = "open"
                  /\ send' = send /\ wire' = wire
                  /\ wpc'[c] = "loop" /\ rpc'[c] = rpc[c]
                  /\ conn' = conn /\ closers' = closers /\ rooms' = rooms
            /\ PingFailed(c) => pings' = pings /\ send' = send
            /\ wpc[c] \in {"leave", "leaving", "close", "done"} =>
                  /\ pings'[c] = pings[c]
                  /\ wpc'[c] \in {"leave", "leaving", "close", "done"}
            /\ (wpc'[c] = "loop" /\ rpc'[c] = "loop" /\ closers'[c] = 0
                /\ c \in MembersIn(rooms', ccid'[c])) => conn'[c] = "open"
         ]_vars
    /\ \A c \in {1} :
          (wpc[c] = "leave") ~>
              (wpc[c] = "done" /\ conn[c] = "closed" /\ ~InSomeRoom(c))

\* the peer left every counted ping without an answer, and the connection
\* is as it was: joined, open, both loops running
C20_Witness ==
    \E c \in Conns :
        /\ pings[c] = MaxPings
        /\ wpc[c] = "loop" /\ rpc[c] = "loop"
        /\ conn[c] = "open" /\ c \in Members(ccid[c])
        /\ wire[c] # <<>>

\* C21: Publish hands each member with queue space one copy of the event
\* as it was given.  The step that takes such a member through the select
\* appends the call's event, type, conversation_id and payload as passed
\* to Publish, to that member's queue and to no other; the event of a call
\* stays what it was until the call returns; no client is ever handed the
\* event of one call twice; and when the first Publish ever made returns,
\* a member it enqueued to whose writer has dequeued nothing holds exactly
\* that one event.
C21_ExactlyOneCopy ==
    [][/\ \A p \in Publishers :
            /\ \A cl \in Conns :
                  (Reaches(p, cl) /\ Len(send[cl]) < QueueCap) =>
                      /\ send'[cl] = Append(send[cl], pev[p])
                      /\ \A d \in Conns \ {cl} : send'[d] = send[d]
            /\ (ppc[p] \in {"rlock", "loop"} /\ ppc'[p] # "idle") =>
                  pev'[p] = pev[p]
            /\ (Returns(p) /\ nPub = 1) =>
                  \A cl \in penq[p] :
                      (wire[cl] = <<>> /\ wpc[cl] = "loop") => send[cl] = <<pev[p]>>
       /\ \A c \in Conns :
            \A i, j \in DOMAIN Delivered(c)' :
                Delivered(c)'[i].payload = Delivered(c)'[j].payload => i = j
      ]_vars

\* the scenario: one Publish was made and has returned, and the endpoint
\* that had joined the room holds its event and nothing else
C21_Witness ==
    \E c \in Conns :
        /\ nPub = 1 /\ \A p \in Publishers : ppc[p] = "idle"
        /\ c \in Members(ccid[c])
        /\ wire[c] = <<>> /\ Len(send[c]) = 1
        /\ send[c][1].payload = 1 /\ send[c][1].type = "message.created"
        /\ ObjectIDFromHex(send[c][1].conversation_id).id = ccid[c]

\* a loop has terminated: it is in its deferred teardown or past it
Terminated(c, who) == LoopPc(c, who) \in {"leave", "leaving", "close", "done"}

\* C22: the termination of either loop of a joined connection leads to
\* Closed.  Once the reader or the writer has terminated, eventually both
\* loops are done, the transport is closed and the endpoint is a member of
\* no room.
C22_TerminationLeadsToClosed ==
    \A c \in {1} :
        (Terminated(c, "w") \/ Terminated(c, "r")) ~>
            (/\ wpc[c] = "done" /\ rpc[c] = "done"
             /\ conn[c] = "closed" /\ ~InSomeRoom(c))

\* the reader's teardown has closed the transport under a writer still in
\* its loop with an event to write
C22_Witness ==
    \E c \in Conns :
        /\ rpc[c] = "done" /\ wpc[c] = "loop"
        /\ conn[c] = "closed" /\ send[c] # <<>>
        /\ closers[c] = 0

\* C23: in a loop's teardown Leave returns before the loop closes the
\* transport.  A close made by a loop's teardown is made by a loop that does
\* not hold the registry lock and whose own Leave is among those that have
\* returned: the closes of the teardowns never outnumber the Leave calls
\* returned, and the one being made is covered by a Leave already counted.
C23_LeaveBeforeClose ==
    [][\A c \in Conns :
         /\ nClose'[c] <= nLeave'[c]
         /\ nClose'[c] # nClose[c] =>
               /\ nClose'[c] = nClose[c] + 1
               /\ nLeave[c] >= nClose'[c]
               /\ \E who \in Loops :
                     /\ LoopPc(c, who) = "close" /\ LoopPc(c, who)' = "done"
                     /\ wLock # <<"leave", c, who>>
               /\ ~InSomeRoom(c)
      ]_vars

\* one loop's teardown is over, Leave then close, while the other loop has
\* not terminated
C23_Witness ==
    \E c \in Conns : \E who, other \in Loops :
        /\ LoopPc(c, who) = "done" /\ LoopPc(c, other) = "loop"
        /\ nLeave[c] = 1 /\ nClose[c] = 1
        /\ conn[c] = "closed" /\ closers[c] = 0

\* C24: one Publish at a time feeds the queues of a room.  No two Publish
\* calls for the same conversation are inside their range loop together.
C24_OnePublishPerRoom ==
    \A p, q \in Publishers :
        (p # q /\ ppc[p] = "loop" /\ ppc[q] = "loop") => pcid[p] # pcid[q]

\* C25: an endpoint is in at most one room, its own.  After every step, a
\* room that holds an endpoint is the room keyed by the endpoint's
\* conversation id, and a conversation id once given to an endpoint stays.
C25_OwnRoomOnly ==
    [][\A c \in Conns :
         /\ \A k \in DOMAIN rooms' : c \in rooms'[k] => k = ccid'[c]
         /\ Cardinality({k \in DOMAIN rooms' : c \in rooms'[k]}) <= 1
         /\ ccid[c] # <<>> => ccid'[c] = ccid[c]
      ]_vars

\* two endpoints joined, each to the room of its own conversation
C25_Witness ==
    \E c, d \in Conns :
        /\ ccid[c] # ccid[d]
        /\ rooms = [k \in {ccid[c], ccid[d]} |-> IF k = ccid[c] THEN {c} ELSE {d}]

\* a step of Publish p inside its critical section
PublishStep(p) ==
    /\ ppc[p] \in {"rlock", "loop"}
    /\ ppc'[p] # ppc[p] \/ todo'[p] # todo[p]

\* C26: routing isolation.  A step of Publish(e) inside its critical
\* section leaves the rooms keyed otherwise than by e's conversation as
\* they were, their keys included, and leaves the queue of every endpoint
\* of another conversation as it was; and every event in an endpoint's
\* queue carries the conversation id of that endpoint.
C26_RoutingIsolation ==
    [][/\ \A p \in Publishers :
            PublishStep(p) =>
                /\ \A k \in (DOMAIN rooms \cup DOMAIN rooms') \ {pcid[p]} :
                      /\ k \in DOMAIN rooms /\ k \in DOMAIN rooms'
                      /\ rooms'[k] = rooms[k]
                /\ \A d \in Conns : ccid[d] # pcid[p] => send'[d] = send[d]
       /\ \A c \in Conns : \A i \in DOMAIN send'[c] :
            ObjectIDFromHex(send'[c][i].conversation_id).id = ccid'[c]
      ]_vars

\* a Publish has enqueued to the endpoint of its conversation while the
\* endpoint of another conversation is joined and holds an event of its own
C26_Witness ==
    \E p \in Publishers : \E c, d \in Conns :
        /\ ppc[p] = "loop" /\ c \in penq[p]
        /\ ccid[d] # pcid[p] /\ d \in Members(ccid[d])
        /\ send[d] # <<>> /\ send[c] # <<>>
        /\ send[c][1].conversation_id # send[d][1].conversation_id

\* C27: the queue is bounded.  An endpoint's queue never holds more events
\* than the capacity of the channel.
C27_QueueBounded == \A c \in Conns : Len(send[c]) <= QueueCap

\* the queue is at capacity, filled by two Publish calls that are both
\* still inside their critical section
C27_Witness ==
    \E c \in Conns : \E p, q \in Publishers :
        /\ p # q /\ ppc[p] = "loop" /\ ppc[q] = "loop"
        /\ c \in penq[p] /\ c \in penq[q]
        /\ Len(send[c]) = QueueCap

\* C28: a full queue is the only eviction trigger.  A Publish step that
\* removes a member from the room, or schedules the close of a transport,
\* does it to an endpoint whose queue holds exactly capacity events; a
\* member with free space that the range reaches stays a member and gets
\* no close scheduled.
C28_EvictOnlyWhenFull ==
    [][\A p \in Publishers : \A cl \in Conns :
         /\ (PublishStep(p)
             /\ \/ cl \in Members(pcid[p]) /\ cl \notin MembersIn(rooms', pcid[p])
                \/ closers'[cl] > closers[cl]
                \/ cl \in pevict'[p] /\ cl \notin pevict[p]) =>
                  Len(send[cl]) = QueueCap
         /\ (Reaches(p, cl) /\ Len(send[cl]) < QueueCap) =>
               /\ cl \in MembersIn(rooms', pcid[p])
               /\ closers'[cl] = closers[cl]
               /\ cl \notin pevict'[p]
      ]_vars

\* a Publish has evicted the endpoint, whose queue two earlier calls had
\* filled, while another Publish is inside its critical section
C28_Witness ==
    \E p, q \in Publishers : \E cl \in Conns :
        /\ p # q /\ ppc[p] = "loop" /\ ppc[q] \in {"rlock", "loop"}
        /\ cl \in pevict[p] /\ closers[cl] = 1
        /\ Len(send[cl]) = QueueCap
        /\ cl \notin Members(pcid[p])

\* the handler's step on an attempt whose request is on record
Handled(c) == hpc[c] = "start" /\ hpc'[c] # "start" /\ req'[c].hdr # "none"

\* credential, subject, conversation id and membership are in order
ChecksPass(r) ==
    /\ CredOk(r) /\ WellFormed(r.uid) /\ WellFormed(r.cid)
    /\ r.found = "yes"

\* C29: a failed upgrade leaves nothing behind.  When the upgrade fails for
\* a request that passed every check, the handler's step makes no client,
\* starts no loop, leaves rooms, lock and queues as they were, and the
\* attempt is over: Join is never called for it.
C29_FailedUpgradeLeavesNothing ==
    [][\A c \in Conns :
         /\ (Handled(c) /\ ChecksPass(req'[c]) /\ ~req'[c].upgradeOk) =>
               /\ status'[c] = "upgrade_failed"
               /\ hpc'[c] = "rejected"
               /\ conn'[c] = "none" /\ ccid'[c] = <<>>
               /\ wpc'[c] = "none" /\ rpc'[c] = "none"
               /\ rooms' = rooms /\ wLock' = wLock /\ send' = send
         /\ status[c] = "upgrade_failed" =>
               /\ hpc'[c] = "rejected" /\ wLock' # <<"join", c>>
               /\ \A k \in DOMAIN rooms' : c \notin rooms'[k]
               /\ wpc'[c] = "none" /\ rpc'[c] = "none"
      ]_vars

\* the upgrade failed for a member of the conversation the first
\* connection is joined to, and that room is as it was
C29_Witness ==
    \E c \in Conns :
        /\ OnRecord(c) /\ ChecksPass(req[c]) /\ ~req[c].upgradeOk
        /\ status[c] = "upgrade_failed"
        /\ Members(ObjectIDFromHex(req[c].cid).id) = {1}

\* the outcome the first failing check gives, the checks taken in the
\* order credential, subject, conversation id, membership, upgrade
FirstFailure(r) ==
    IF ~CredOk(r) THEN "401"
    ELSE IF ~WellFormed(r.uid) THEN "401"
    ELSE IF ~WellFormed(r.cid) THEN "400"
    ELSE IF r.found = "err" THEN "500"
    ELSE IF r.found = "no" THEN "403"
    ELSE IF ~r.upgradeOk THEN "upgrade_failed"
    ELSE "101"

\* C30: the checks of the handshake run in a fixed order and the first one
\* that fails decides.  The handler's outcome is that of the first failing
\* check in the order credential, subject, conversation id, membership: a
\* bad credential gives 401 whatever the conversation id and the
\* membership answer are, and a request that fails one of the first three
\* checks has the same outcome whatever the membership check would answer.
C30_FirstFailureDecides ==
    [][\A c \in Conns :
         Handled(c) =>
            LET r == req'[c]
            IN /\ status'[c] = FirstFailure(r)
               /\ ~CredOk(r) => status'[c] = "401"
               /\ (~CredOk(r) \/ ~WellFormed(r.uid) \/ ~WellFormed(r.cid)) =>
                     \A f \in MemberInputs :
                         status'[c] = FirstFailure([r EXCEPT !.found = f])
      ]_vars

\* a request with a bad credential, an ill-formed conversation id and a
\* membership check that would fail was answered 401
C30_Witness ==
    \E c \in Conns :
        /\ OnRecord(c)
        /\ req[c].hdr = "invalid" /\ req[c].qry = "absent"
        /\ req[c].cid = HexBad /\ req[c].found = "err"
        /\ status[c] = "401"

\* a step that puts an event into the queue of c
Enqueues(c) == Len(send'[c]) > Len(send[c])

\* c was joined and is in its room no more
Removed(c) == hpc[c] = "done" /\ c \notin Members(ccid[c])

\* C31: nothing is enqueued to an endpoint that was removed.  After Leave
\* or an eviction took an endpoint out of its room, no step of any Publish,
\* one that was running when the endpoint was removed included, puts an
\* event into the endpoint's queue.
C31_NoEnqueueAfterRemoval ==
    [][\A c \in Conns : Removed(c) => ~Enqueues(c)]_vars

\* Publish has evicted c and the close it started is still to run
CloseScheduled(c) == closers[c] > 0

\* C32: an evicted endpoint is eventually torn down.  After Publish evicts
\* an endpoint, under fair scheduling the close Publish scheduled happens,
\* both loops of the endpoint terminate and finish their teardown, and the
\* room the eviction left empty is deleted from the registry.
C32_EvictedTornDown ==
    \A c \in {1} :
        CloseScheduled(c) ~>
            (/\ closers[c] = 0 /\ conn[c] = "closed"
             /\ wpc[c] = "done" /\ rpc[c] = "done"
             /\ ccid[c] \notin DOMAIN rooms)

\* the Publish that evicted c is still in its range, the close it
\* scheduled has happened, both loops have terminated on the closed
\* transport and wait for the lock, the emptied room still there
C32_Witness ==
    \E p \in Publishers : \E c \in Conns :
        /\ ppc[p] = "loop" /\ c \in pevict[p]
        /\ closers[c] = 0 /\ conn[c] = "closed"
        /\ wpc[c] = "leave" /\ rpc[c] = "leave"
        /\ ccid[c] \in DOMAIN rooms /\ rooms[ccid[c]] = {}

\* a step that makes c a member of some room
Admits(c) ==
    \E k \in DOMAIN rooms' : c \in rooms'[k] /\ c \notin MembersIn(rooms, k)

\* C33: Join is called once per endpoint and returns before either loop is
\* started.  A loop that has started, and so every teardown Leave, belongs
\* to an endpoint whose Join has returned; an endpoint is admitted to a
\* room only by the one step in which its Join returns; an endpoint that
\* has left or been evicted is never a member again; and once both loops
\* have finished their teardown the endpoint is in no room.
C33_JoinOnceBeforeLoops ==
    [][\A c \in Conns :
         /\ (wpc'[c] # "none" \/ rpc'[c] # "none" \/ nLeave'[c] > 0) =>
               hpc'[c] = "done"
         /\ Admits(c) => (hpc[c] = "joining" /\ hpc'[c] = "done")
         /\ hpc[c] = "done" => hpc'[c] = "done"
         /\ Removed(c) => (hpc'[c] = "done" /\ ~Admits(c))
         /\ (wpc'[c] = "done" /\ rpc'[c] = "done") =>
               \A k \in DOMAIN rooms' : c \notin rooms'[k]
      ]_vars

\* both loops of c have finished their teardown and c is out of the room
\* it shared with d, who is still a member
C33_Witness ==
    \E c, d \in Conns :
        /\ c # d /\ ccid[c] = ccid[d]
        /\ wpc[c] = "done" /\ rpc[c] = "done" /\ nLeave[c] = 2
        /\ Members(ccid[c]) = {d}

\* the step in which publisher p calls Publish with an event of the given
\* conversation id
Calls(p, cidHex) ==
    /\ ppc[p] = "idle" /\ nPub' = nPub + 1
    /\ \E ty \in EventTypes :
          PublishEnter(p, [type |-> ty, conversation_id |-> cidHex,
                           payload |-> nPub'])

\* C34: Publish of an event with an ill-formed conversation id returns at
\* once.  The call does not go on to the registry lock, and it changes no
\* room, no queue, no transport and no loop; a call that holds or awaits
\* the lock has a well-formed conversation id.
C34_IllFormedPublishNoOp ==
    [][\A p \in Publishers :
         /\ \A cidHex \in PublishHexInputs :
              (nPub' # nPub /\ Calls(p, cidHex)
                 /\ ObjectIDFromHex(cidHex).err) =>
                 /\ ppc' = ppc /\ rLock' = rLock /\ wLock' = wLock
                 /\ rooms' = rooms /\ send' = send /\ wire' = wire
                 /\ conn' = conn /\ closers' = closers
                 /\ wpc' = wpc /\ rpc' = rpc /\ todo' = todo
         /\ (ppc'[p] # "idle" /\ ppc[p] # "rlock") =>
               /\ ~ObjectIDFromHex(pev'[p].conversation_id).err
               /\ pcid'[p] = ObjectIDFromHex(pev'[p].conversation_id).id
      ]_vars

\* the first call delivered its event to the joined client; the second
\* call has returned without having gone on to the lock (it is ordered
\* after no call), and room and queue are as the first call left them
C34_Witness ==
    \E c \in Conns :
        /\ nPub = 2 /\ \A p \in Publishers : ppc[p] = "idle"
        /\ <<1, 2>> \notin before
        /\ c \in Members(ccid[c]) /\ wire[c] = <<>>
        /\ Len(send[c]) = 1 /\ send[c][1].payload = 1

\* C35: the registry is deadlock-free.  Every Join, Leave and Publish call
\* that has started eventually has taken the lock, done its work and
\* released it: a handler at Join gets past it, a loop at its teardown
\* Leave gets past it, and a Publish that awaits or holds the shared lock
\* returns.
C35_CallsComplete ==
    /\ \A c \in {1} : (hpc[c] \in {"join", "joining"}) ~> (hpc[c] = "done")
    /\ \A c \in {1}, who \in Loops :
          (LoopPc(c, who) \in {"leave", "leaving"}) ~>
              (LoopPc(c, who) \in {"close", "done"})
    /\ \A p \in Publishers : (ppc[p] \in {"rlock", "loop"}) ~> (ppc[p] = "idle")

====
